---- MODULE Spec2Model ----
(***************************************************************************)
(* Model of the Generac monitoring cycle: state extraction, state diffing, *)
(* notification policy, dispatch and persistence                           *)
(* (src/src/state_manager.py, src/src/notifier.py,                         *)
(* src/src/lambda_handler.py, src/src/config.py).                          *)
(***************************************************************************)
EXTENDS Integers, Sequences, FiniteSets, TLC

VARIABLES
    config,     \* Config loaded by lambda_handler for the running invocation
    store,      \* DynamoDB table: device_id -> item, or NoItem
    pc,         \* position of the invocation: "idle", "running", "done"
    pending,    \* devices of the fetched mapping not yet iterated, in order
    results,    \* the results dictionary of check_generators
    raised,     \* whether check_generators raised to its caller
    iterated,   \* devices the loop has iterated in this cycle (history variable)
    last,       \* observation of the latest loop iteration (history variable)
    announced,  \* devices a new-device message was delivered for (history, SpecCycles)
    reannounced, \* devices it was delivered for again later (history, SpecCycles)
    dispatched, \* messages send_notification dispatched in this cycle (history, SpecCycles)
    pin,        \* arguments of a direct call of a pure function
    pout        \* result of that call

vars == <<config, store, pc, pending, results, raised, iterated, last,
          announced, reannounced, dispatched, pin, pout>>

-----------------------------------------------------------------------------
(* Python values.  A value is a record [t, x10, s]: t is the Python type,  *)
(* x10 the numeric value in tenths (voltages have one decimal), s the text *)
(* of a str.                                                               *)

PyNone == [t |-> "none", x10 |-> 0, s |-> ""]
PyBool(b) == [t |-> "bool", x10 |-> IF b THEN 10 ELSE 0, s |-> ""]
PyInt(i) == [t |-> "int", x10 |-> 10 * i, s |-> ""]
PyFloat(tenths) == [t |-> "float", x10 |-> tenths, s |-> ""]
PyStr(str) == [t |-> "str", x10 |-> 0, s |-> str]

PyTrue == PyBool(TRUE)
PyFalse == PyBool(FALSE)

IsNumber(v) == v.t \in {"bool", "int", "float"}

\* Python ==: numbers compare by value across bool, int and float; a str only
\* equals a str with the same text; None only equals None.
PyEq(a, b) ==
    IF IsNumber(a) /\ IsNumber(b) THEN a.x10 = b.x10
    ELSE IF a.t = "str" /\ b.t = "str" THEN a.s = b.s
    ELSE a.t = "none" /\ b.t = "none"

\* Python truthiness: None, False, 0, 0.0 and "" are falsy.
Truthy(v) ==
    IF IsNumber(v) THEN v.x10 # 0
    ELSE IF v.t = "str" THEN v.s # ""
    ELSE FALSE

\* `x is True`: the bool True itself, not a number equal to it.
IsTrue(v) == v.t = "bool" /\ v.x10 = 10

\* The texts float() parses, with their value in tenths.
NumericText == [s \in {"0", "11.5", "12.0", "13.2"} |->
                  CASE s = "0" -> 0
                    [] s = "11.5" -> 115
                    [] s = "12.0" -> 120
                    [] s = "13.2" -> 132]

\* float(v) raises TypeError for None and ValueError for any other text.
FloatRaises(v) ==
    \/ v.t = "none"
    \/ v.t = "str" /\ v.s \notin DOMAIN NumericText

FloatOf(v) == IF v.t = "str" THEN NumericText[v.s] ELSE v.x10

\* A dict is a function from its keys; d.get(k) is None for a missing key.
EmptyDict == [k \in {} |-> PyNone]
Get(d, k) == IF k \in DOMAIN d THEN d[k] ELSE PyNone

-----------------------------------------------------------------------------
(* Configuration.                                                          *)

DEVICE_TYPE_GENERATOR == 0
DEVICE_TYPE_PROPANE_MONITOR == 2

\* low_battery_threshold: float = 12.0, in tenths of a volt.
DefaultLowBatteryThreshold == 120

Switches == {"notify_on_status_change", "notify_on_connectivity_change",
             "notify_on_maintenance_alert", "notify_on_warning",
             "notify_on_low_battery"}

Config(on, sns, sesFrom, sesTo) ==
    [notify_on_status_change |-> "notify_on_status_change" \in on,
     notify_on_connectivity_change |-> "notify_on_connectivity_change" \in on,
     notify_on_maintenance_alert |-> "notify_on_maintenance_alert" \in on,
     notify_on_warning |-> "notify_on_warning" \in on,
     notify_on_low_battery |-> "notify_on_low_battery" \in on,
     low_battery_threshold |-> DefaultLowBatteryThreshold,
     sns_topic_arn |-> sns,
     ses_from_email |-> sesFrom,
     ses_to_emails |-> sesTo]

-----------------------------------------------------------------------------
(* State extraction (StateManager.extract_state).                          *)

\* An Item: the apparatus metadata and its detail block; properties is the
\* detail's list of typed properties (None and [] both hold no entry).
Apparatus(type, name, serial) == [type |-> type, name |-> name, serialNumber |-> serial]

Detail(connected, connecting, maint, warn, label, text, status, seen, props) ==
    [isConnected |-> connected, isConnecting |-> connecting,
     hasMaintenanceAlert |-> maint, showWarning |-> warn,
     statusLabel |-> label, statusText |-> text,
     apparatusStatus |-> status, lastSeen |-> seen,
     properties |-> props]

Item(apparatus, detail) == [apparatus |-> apparatus, apparatusDetail |-> detail]

Property(type, value) == [type |-> type, value |-> value]

IsItem(item) == DOMAIN item = {"apparatus", "apparatusDetail"}

BATTERY_PROPERTY_TYPE == 70

\* The value of the first property of type 70 from position i on, else None.
RECURSIVE FirstBatteryValue(_, _)
FirstBatteryValue(props, i) ==
    IF i > Len(props) THEN PyNone
    ELSE IF props[i].type = BATTERY_PROPERTY_TYPE THEN props[i].value
    ELSE FirstBatteryValue(props, i + 1)

BaseKeys == {"device_type", "name", "serial_number", "is_connected",
             "is_connecting", "has_maintenance_alert", "show_warning",
             "status_label", "status_text", "apparatus_status", "last_seen"}

ExtractState(item) ==
    IF ~IsItem(item) THEN EmptyDict
    ELSE
      LET a == item.apparatus
          d == item.apparatusDetail
          state == [k \in BaseKeys |->
                      CASE k = "device_type" -> a.type
                        [] k = "name" -> a.name
                        [] k = "serial_number" -> a.serialNumber
                        [] k = "is_connected" -> d.isConnected
                        [] k = "is_connecting" -> d.isConnecting
                        [] k = "has_maintenance_alert" -> d.hasMaintenanceAlert
                        [] k = "show_warning" -> d.showWarning
                        [] k = "status_label" -> d.statusLabel
                        [] k = "status_text" -> d.statusText
                        [] k = "apparatus_status" -> d.apparatusStatus
                        [] k = "last_seen" -> d.lastSeen]
      IN IF PyEq(a.type, PyInt(DEVICE_TYPE_GENERATOR))
         THEN [k \in BaseKeys \cup {"battery_voltage"} |->
                 IF k = "battery_voltage"
                 THEN FirstBatteryValue(d.properties, 1)
                 ELSE state[k]]
         ELSE state

-----------------------------------------------------------------------------
(* Persistence (StateManager.get_previous_state, save_state).              *)

\* json.dumps(state, default=str): the text of one value.  A JSON token is
\* [j, x10, s]; a value of a type json does not know is written as the
\* string str() gives.
JsonEncode(v) ==
    CASE v.t = "none" -> [j |-> "null", x10 |-> 0, s |-> ""]
      [] v.t = "bool" -> [j |-> IF v.x10 = 10 THEN "true" ELSE "false",
                          x10 |-> 0, s |-> ""]
      [] v.t = "int" -> [j |-> "integer", x10 |-> v.x10, s |-> ""]
      [] v.t = "float" -> [j |-> "real", x10 |-> v.x10, s |-> ""]
      [] OTHER -> [j |-> "string", x10 |-> 0, s |-> v.s]

\* Faulty variant of JsonDecode: a real number is read back as an integer.
JsonDecodeTruncatesReal(tok) ==
    CASE tok.j = "null" -> PyNone
      [] tok.j = "true" -> PyTrue
      [] tok.j = "false" -> PyFalse
      [] tok.j = "integer" -> [t |-> "int", x10 |-> tok.x10, s |-> ""]
      [] tok.j = "real" -> PyInt(tok.x10 \div 10)
      [] OTHER -> PyStr(tok.s)

\* json.loads: the value of one token.
JsonDecode(tok) ==
    CASE tok.j = "null" -> PyNone
      [] tok.j = "true" -> PyTrue
      [] tok.j = "false" -> PyFalse
      [] tok.j = "integer" -> [t |-> "int", x10 |-> tok.x10, s |-> ""]
      [] tok.j = "real" -> PyFloat(tok.x10)
      [] OTHER -> PyStr(tok.s)

\* A str holding a JSON object, and a parsed dict, as the "state" attribute.
JsonDumps(state) == [py |-> "str", doc |-> [k \in DOMAIN state |-> JsonEncode(state[k])]]
JsonLoads(text) == [k \in DOMAIN text.doc |-> JsonDecode(text.doc[k])]
DictObj(d) == [py |-> "dict", dict |-> d]
IsStrObj(obj) == obj.py = "str"

\* Faulty variant of Catches: every except clause only catches ClientError.
CatchesOnlyClientError(cls, exc) == exc = "ClientError"

\* Exception classes: ClientError derives from Exception.  An
\* `except cls` clause catches exc iff exc is an instance of cls.
Catches(cls, exc) == cls = "Exception" \/ cls = exc

\* What a call into boto3 does: return, raise ClientError, or raise another
\* exception (a botocore error that is no ClientError).
CallOutcomes == {"ok", "ClientError", "Exception"}

NoItem == [absent |-> TRUE]
NoneResult == [none |-> TRUE]

\* The item put_item writes.
SavedItem(device_id, state) ==
    [device_id |-> device_id,
     state |-> JsonDumps(state),
     last_updated |-> "utcnow"]

\* get_previous_state: None when the table holds no item or when get_item
\* raises ClientError; else the item with its state text parsed.  exc is the
\* exception that leaves the method ("none" when it returns).
GetPreviousState(table, device_id, getItem) ==
    IF getItem # "ok"
    THEN IF Catches("ClientError", getItem)
         THEN [exc |-> "none", value |-> NoneResult]
         ELSE [exc |-> getItem, value |-> NoneResult]
    ELSE IF table[device_id] = NoItem THEN [exc |-> "none", value |-> NoneResult]
    ELSE LET item == table[device_id]
         IN [exc |-> "none",
             value |-> IF "state" \in DOMAIN item /\ IsStrObj(item.state)
                       THEN [item EXCEPT !.state = DictObj(JsonLoads(item.state))]
                       ELSE item]

\* save_state: the table after put_item and the value returned; put_item
\* raising ClientError leaves the table as it was and returns False.
SaveState(table, device_id, state, putItem) ==
    IF putItem # "ok"
    THEN [exc |-> IF Catches("ClientError", putItem) THEN "none" ELSE putItem,
          table |-> table, ok |-> FALSE]
    ELSE [exc |-> "none",
          table |-> [table EXCEPT ![device_id] = SavedItem(device_id, state)],
          ok |-> TRUE]

-----------------------------------------------------------------------------
(* Diffing (StateManager.compare_states).                                  *)

Change(prev, curr) == [previous |-> prev, current |-> curr]

\* Faulty variant of CompareStates: a device without a previous record is diffed
\* against an empty record instead of returning no changes.
CompareStatesDiffsNewDevice(previous, current) ==
    LET previous_state ==
          IF previous = NoneResult \/ "state" \notin DOMAIN previous THEN EmptyDict
          ELSE IF IsStrObj(previous.state) THEN JsonLoads(previous.state)
          ELSE previous.state.dict
        changed == {k \in DOMAIN current :
                      ~PyEq(Get(previous_state, k), current[k])}
    IN [is_new_device |-> previous = NoneResult,
        changes |-> [k \in changed |->
                       Change(Get(previous_state, k), current[k])]]

\* Faulty variant of CompareStates: the keys of the previous state are examined too.
CompareStatesBothKeySets(previous, current) ==
    IF previous = NoneResult
    THEN [is_new_device |-> TRUE, changes |-> EmptyDict]
    ELSE
      LET previous_state ==
            IF "state" \notin DOMAIN previous THEN EmptyDict
            ELSE IF IsStrObj(previous.state) THEN JsonLoads(previous.state)
            ELSE previous.state.dict
          changed == {k \in DOMAIN current \cup DOMAIN previous_state :
                        ~PyEq(Get(previous_state, k), Get(current, k))}
      IN [is_new_device |-> FALSE,
          changes |-> [k \in changed |->
                         Change(Get(previous_state, k), Get(current, k))]]

CompareStates(previous, current) ==
    IF previous = NoneResult
    THEN [is_new_device |-> TRUE, changes |-> EmptyDict]
    ELSE
      LET previous_state ==
            IF "state" \notin DOMAIN previous THEN EmptyDict
            ELSE IF IsStrObj(previous.state) THEN JsonLoads(previous.state)
            ELSE previous.state.dict
          changed == {k \in DOMAIN current :
                        ~PyEq(Get(previous_state, k), current[k])}
      IN [is_new_device |-> FALSE,
          changes |-> [k \in changed |->
                         Change(Get(previous_state, k), current[k])]]

-----------------------------------------------------------------------------
(* Notification policy (Notifier.should_notify, process_changes).          *)

Categories == <<"status_change", "connectivity", "maintenance", "warning",
                "low_battery">>

\* changes.get(key, {}).get("current")
CurrentOf(changes, key) ==
    IF key \in DOMAIN changes THEN changes[key].current ELSE PyNone

LowBatteryRule(cfg, current_state) ==
    LET battery_voltage == Get(current_state, "battery_voltage")
    IN /\ Truthy(battery_voltage)
       /\ ~FloatRaises(battery_voltage)
       /\ FloatOf(battery_voltage) < cfg.low_battery_threshold

\* Faulty variant of ShouldNotify: the status rule is not gated by its switch.
ShouldNotifyUngatedStatus(cfg, change_type, changes, current_state) ==
    IF change_type = "status_change"
    THEN "apparatus_status" \in DOMAIN changes
    ELSE IF change_type = "connectivity" /\ cfg.notify_on_connectivity_change
    THEN "is_connected" \in DOMAIN changes \/ "is_connecting" \in DOMAIN changes
    ELSE IF change_type = "maintenance" /\ cfg.notify_on_maintenance_alert
    THEN IsTrue(CurrentOf(changes, "has_maintenance_alert"))
    ELSE IF change_type = "warning" /\ cfg.notify_on_warning
    THEN IsTrue(CurrentOf(changes, "show_warning"))
    ELSE IF change_type = "low_battery" /\ cfg.notify_on_low_battery
    THEN LowBatteryRule(cfg, current_state)
    ELSE FALSE

\* Faulty variant of ShouldNotify: the maintenance and warning rules fire on any
\* change of their field, a cleared alert included.
ShouldNotifyOnCleared(cfg, change_type, changes, current_state) ==
    IF change_type = "status_change" /\ cfg.notify_on_status_change
    THEN "apparatus_status" \in DOMAIN changes
    ELSE IF change_type = "connectivity" /\ cfg.notify_on_connectivity_change
    THEN "is_connected" \in DOMAIN changes \/ "is_connecting" \in DOMAIN changes
    ELSE IF change_type = "maintenance" /\ cfg.notify_on_maintenance_alert
    THEN "has_maintenance_alert" \in DOMAIN changes
    ELSE IF change_type = "warning" /\ cfg.notify_on_warning
    THEN "show_warning" \in DOMAIN changes
    ELSE IF change_type = "low_battery" /\ cfg.notify_on_low_battery
    THEN LowBatteryRule(cfg, current_state)
    ELSE FALSE

ShouldNotify(cfg, change_type, changes, current_state) ==
    IF change_type = "status_change" /\ cfg.notify_on_status_change
    THEN "apparatus_status" \in DOMAIN changes
    ELSE IF change_type = "connectivity" /\ cfg.notify_on_connectivity_change
    THEN "is_connected" \in DOMAIN changes \/ "is_connecting" \in DOMAIN changes
    ELSE IF change_type = "maintenance" /\ cfg.notify_on_maintenance_alert
    THEN IsTrue(CurrentOf(changes, "has_maintenance_alert"))
    ELSE IF change_type = "warning" /\ cfg.notify_on_warning
    THEN IsTrue(CurrentOf(changes, "show_warning"))
    ELSE IF change_type = "low_battery" /\ cfg.notify_on_low_battery
    THEN LowBatteryRule(cfg, current_state)
    ELSE FALSE

\* build_message: the subject line decides the kind of the message.
BuildMessage(device_id, current_state, changes, is_new_device) ==
    [kind |-> IF is_new_device THEN "new_device" ELSE "alert",
     device_id |-> device_id,
     name |-> Get(current_state, "name"),
     changed |-> DOMAIN changes]

-----------------------------------------------------------------------------
(* Dispatch (Notifier.__init__, send_notification).                        *)

SnsClient(cfg) == cfg.sns_topic_arn # ""
SesClient(cfg) == cfg.ses_from_email # "" /\ cfg.ses_to_emails # <<>>

\* send_notification: the channels attempted, the value returned, and the
\* exception that leaves the method ("none" when it returns).
SendNotification(cfg, publish, sendEmail) ==
    LET useSns == SnsClient(cfg) /\ cfg.sns_topic_arn # ""
        useSes == SesClient(cfg) /\ cfg.ses_from_email # "" /\ cfg.ses_to_emails # <<>>
        afterSns ==
            IF ~useSns THEN [exc |-> "none", attempted |-> {}, success |-> FALSE]
            ELSE [exc |-> IF publish = "ok" \/ Catches("ClientError", publish)
                          THEN "none" ELSE publish,
                  attempted |-> {"sns"},
                  success |-> publish = "ok"]
    IN IF afterSns.exc # "none" \/ ~useSes THEN afterSns
       ELSE [exc |-> IF sendEmail = "ok" \/ Catches("ClientError", sendEmail)
                     THEN "none" ELSE sendEmail,
             attempted |-> afterSns.attempted \cup {"ses"},
             success |-> afterSns.success \/ sendEmail = "ok"]

\* process_changes, lines 250-262: whether any category rule fires.
ShouldSend(cfg, changes, current_state) ==
    IF ShouldNotify(cfg, "status_change", changes, current_state) THEN TRUE
    ELSE IF ShouldNotify(cfg, "connectivity", changes, current_state) THEN TRUE
    ELSE IF ShouldNotify(cfg, "maintenance", changes, current_state) THEN TRUE
    ELSE IF ShouldNotify(cfg, "warning", changes, current_state) THEN TRUE
    ELSE IF ShouldNotify(cfg, "low_battery", changes, current_state) THEN TRUE
    ELSE FALSE

\* process_changes: the messages built and handed to send_notification, the
\* channels attempted, and the exception that leaves the method.
ProcessChanges(cfg, device_id, current_state, changes, is_new_device, publish, sendEmail) ==
    LET message == BuildMessage(device_id, current_state, changes, is_new_device)
        sent == SendNotification(cfg, publish, sendEmail)
    IN IF is_new_device \/ ShouldSend(cfg, changes, current_state)
       THEN [exc |-> sent.exc, messages |-> <<message>>,
             attempted |-> sent.attempted, success |-> sent.success]
       ELSE [exc |-> "none", messages |-> <<>>,
             attempted |-> {}, success |-> FALSE]

-----------------------------------------------------------------------------
(* The monitoring cycle (check_generators).                                *)

NumDevices == 2
DeviceIds == 1..NumDevices

\* At most MaxFaults calls of one loop iteration fail.
MaxFaults == 1

Steps == {"extract", "getItem", "compare", "publish", "sendEmail", "putItem"}

\* What the collaborators do during one loop iteration.
Envs == {env \in [extract : {"ok", "Exception"}, getItem : CallOutcomes,
                  compare : {"ok", "Exception"}, publish : CallOutcomes,
                  sendEmail : CallOutcomes, putItem : CallOutcomes] :
           Cardinality({f \in Steps : env[f] # "ok"}) <= MaxFaults}

NoState == [unset |-> TRUE]

\* The body of the per-device try block, lines 56-91: the exception that
\* reaches its except clause ("none" when the body completes), the table
\* afterwards, and what each step did.
Iteration(cfg, table, device_id, item, env) ==
    LET current_state == ExtractState(item)
        loaded == GetPreviousState(table, device_id, env.getItem)
        comparison == CompareStates(loaded.value, current_state)
        notify == comparison.is_new_device \/ DOMAIN comparison.changes # {}
        processed == ProcessChanges(cfg, device_id, current_state,
                                    comparison.changes,
                                    comparison.is_new_device,
                                    env.publish, env.sendEmail)
        saved == SaveState(table, device_id, current_state, env.putItem)
        base == [device_id |-> device_id, exc |-> "none", stage |-> "done",
                 had_record |-> table[device_id] # NoItem,
                 current_state |-> NoState, comparison |-> NoState,
                 process_called |-> FALSE, messages |-> <<>>,
                 attempted |-> {}, delivered |-> FALSE, counted |-> FALSE,
                 save_called |-> FALSE, save_arg |-> NoState,
                 save_ok |-> FALSE, table |-> table]
    IN IF env.extract # "ok"
       THEN [base EXCEPT !.exc = env.extract, !.stage = "extract"]
       ELSE IF loaded.exc # "none"
       THEN [base EXCEPT !.exc = loaded.exc, !.stage = "load",
                         !.current_state = current_state]
       ELSE IF env.compare # "ok"
       THEN [base EXCEPT !.exc = env.compare, !.stage = "compare",
                         !.current_state = current_state]
       ELSE IF notify /\ processed.exc # "none"
       THEN [base EXCEPT !.exc = processed.exc, !.stage = "notify",
                         !.current_state = current_state,
                         !.comparison = comparison,
                         !.process_called = TRUE,
                         !.messages = processed.messages,
                         !.attempted = processed.attempted,
                         !.delivered = processed.success]
       ELSE [base EXCEPT !.exc = saved.exc,
                         !.stage = IF saved.exc # "none" THEN "persist" ELSE "done",
                         !.current_state = current_state,
                         !.comparison = comparison,
                         !.process_called = notify,
                         !.messages = IF notify THEN processed.messages ELSE <<>>,
                         !.attempted = IF notify THEN processed.attempted ELSE {},
                         !.delivered = notify /\ processed.success,
                         !.counted = notify,
                         !.save_called = TRUE,
                         !.save_arg = current_state,
                         !.save_ok = saved.ok,
                         !.table = saved.table]

\* The results dictionary as check_generators creates it, lines 39-43.
NewResults == [devices_checked |-> 0, notifications_sent |-> 0, errors |-> <<>>]

NoIteration == [device_id |-> 0, stage |-> "none"]
NoCall == [op |-> "none"]

\* Snapshots the remote API reports during a cycle: a generator that is
\* Ready or in Warning, its battery below or above the threshold.
Readings == {<<1, 119>>, <<4, 119>>, <<1, 132>>}

CycleItems ==
    {Item(Apparatus(PyInt(DEVICE_TYPE_GENERATOR), PyStr("Gen"), PyStr("SN")),
          Detail(PyTrue, PyFalse, PyFalse, PyFalse, PyNone, PyNone,
                 PyInt(r[1]), PyStr("t1"),
                 <<Property(BATTERY_PROPERTY_TYPE, PyFloat(r[2]))>>)) :
       r \in Readings}

AllOn == Config(Switches, "arn:sns", "from@example.com", <<"to@example.com">>)
AllOff == Config({}, "arn:sns", "", <<>>)
CycleConfigs == {AllOn, AllOff}

\* The account's devices are registered one after the other: a fetch
\* returns the first n of them, in the order of the apparatus list.
Fetched(n) == [i \in 1..n |-> i]

Init ==
    /\ config = AllOn
    /\ store = [d \in DeviceIds |-> NoItem]
    /\ pc = "idle"
    /\ pending = <<>>
    /\ results = NewResults
    /\ raised = FALSE
    /\ iterated = {}
    /\ last = NoIteration
    /\ announced = {}
    /\ reannounced = {}
    /\ dispatched = 0
    /\ pin = NoCall
    /\ pout = NoCall

\* lambda_handler loads the configuration; check_generators creates its
\* results and get_device_data returns the device mapping, lines 36-51.
FetchDevices ==
    /\ pc \in {"idle", "done"}
    /\ \E cfg \in CycleConfigs, n \in 0..NumDevices :
         /\ config' = cfg
         /\ pending' = Fetched(n)
         /\ results' = [NewResults EXCEPT !.devices_checked = n]
    /\ pc' = "running"
    /\ raised' = FALSE
    /\ iterated' = {}
    /\ last' = NoIteration
    /\ dispatched' = 0
    /\ UNCHANGED <<store, announced, reannounced, pin, pout>>

\* The fetch raises: the outer except clause records it, lines 98-103.
FetchFails ==
    /\ pc \in {"idle", "done"}
    /\ \E cfg \in CycleConfigs, exc \in {"Exception"} :
         /\ config' = cfg
         /\ raised' = ~Catches("Exception", exc)
         /\ results' = [NewResults EXCEPT
                          !.errors = IF Catches("Exception", exc)
                                     THEN <<[kind |-> "fetch", device_id |-> 0]>>
                                     ELSE <<>>]
    /\ pending' = <<>>
    /\ pc' = "done"
    /\ iterated' = {}
    /\ last' = [device_id |-> 0, stage |-> "fetch"]
    /\ dispatched' = 0
    /\ UNCHANGED <<store, announced, reannounced, pin, pout>>

\* The calls an iteration made.
Called(r) ==
    {"extract"}
    \cup (IF r.stage # "extract" THEN {"getItem"} ELSE {})
    \cup (IF r.stage \notin {"extract", "load"} THEN {"compare"} ELSE {})
    \cup (IF "sns" \in r.attempted THEN {"publish"} ELSE {})
    \cup (IF "ses" \in r.attempted THEN {"sendEmail"} ELSE {})
    \cup (IF r.save_called THEN {"putItem"} ELSE {})

\* One iteration of the device loop with its except clause, lines 54-96.
IterateDevice ==
    /\ pc = "running"
    /\ pending # <<>>
    /\ \E item \in CycleItems, env \in Envs :
       \E r \in {Iteration(config, store, Head(pending), item, env)} :
         LET device_id == Head(pending)
             caught == r.exc = "none" \/ Catches("Exception", r.exc)
         IN /\ \A f \in Steps : env[f] # "ok" => f \in Called(r)
            /\ store' = r.table
            /\ last' = [f \in DOMAIN r \ {"table"} |-> r[f]]
            /\ results' =
                 [results EXCEPT
                    !.notifications_sent = @ + (IF r.counted THEN 1 ELSE 0),
                    !.errors = IF r.exc # "none" /\ caught
                               THEN Append(@, [kind |-> "device",
                                               device_id |-> device_id])
                               ELSE @]
            /\ raised' = ~caught
            /\ pc' = IF caught THEN "running" ELSE "done"
            /\ pending' = IF caught THEN Tail(pending) ELSE <<>>
            /\ iterated' = iterated \cup {device_id}
    /\ UNCHANGED <<config, pin, pout>>

ProcessDevice ==
    /\ IterateDevice
    /\ UNCHANGED <<announced, reannounced, dispatched>>

\* The loop is over: check_generators returns results, line 103.
ReturnResults ==
    /\ pc = "running"
    /\ pending = <<>>
    /\ pc' = "done"
    /\ UNCHANGED <<config, store, pending, results, raised, iterated, last,
                   announced, reannounced, dispatched, pin, pout>>

Next == FetchDevices \/ FetchFails \/ ProcessDevice \/ ReturnResults

Spec == Init /\ [][Next]_vars

-----------------------------------------------------------------------------
(* The same cycles, with the history of the messages they dispatched.      *)

\* The iteration delivered the new-device message of its device on at least
\* one channel.
Welcomed(r) ==
    /\ r.messages # <<>>
    /\ r.messages[1].kind = "new_device"
    /\ r.delivered

ProcessDeviceObserved ==
    /\ IterateDevice
    /\ announced' = IF Welcomed(last') THEN announced \cup {last'.device_id}
                    ELSE announced
    /\ reannounced' = IF Welcomed(last') /\ last'.device_id \in announced
                      THEN reannounced \cup {last'.device_id}
                      ELSE reannounced
    /\ dispatched' = dispatched + (IF last'.stage \in {"persist", "done"}
                                   THEN Len(last'.messages) ELSE 0)

NextCycles == FetchDevices \/ FetchFails \/ ProcessDeviceObserved \/ ReturnResults

SpecCycles == Init /\ [][NextCycles]_vars

-----------------------------------------------------------------------------
(* Direct calls of compare_states, should_notify and process_changes on    *)
(* every pair of a previous record and a current state of a bounded set.   *)

Absent == [t |-> "absent", x10 |-> 0, s |-> ""]

\* A normalized state; volt = Absent leaves battery_voltage out.
StateOf(status, connected, connecting, maint, warn, volt) ==
    [k \in BaseKeys \cup (IF volt = Absent THEN {} ELSE {"battery_voltage"}) |->
       CASE k = "device_type" ->
              PyInt(IF volt = Absent THEN DEVICE_TYPE_PROPANE_MONITOR
                    ELSE DEVICE_TYPE_GENERATOR)
         [] k = "name" -> PyStr("Gen")
         [] k = "serial_number" -> PyStr("SN")
         [] k = "is_connected" -> PyBool(connected)
         [] k = "is_connecting" -> PyBool(connecting)
         [] k = "has_maintenance_alert" -> PyBool(maint)
         [] k = "show_warning" -> PyBool(warn)
         [] k = "status_label" -> PyNone
         [] k = "status_text" -> PyNone
         [] k = "apparatus_status" -> PyInt(status)
         [] k = "last_seen" -> PyStr("t1")
         [] k = "battery_voltage" -> volt]

\* Ready and Warning, of the status codes 1..9.
StatusCodes == {1, 4}

Connectivity == {<<TRUE, FALSE>>, <<FALSE, TRUE>>, <<FALSE, FALSE>>}

CurrentVoltages == {Absent, PyNone, PyFloat(0), PyFloat(119), PyFloat(120),
                    PyStr("11.5"), PyStr("abc")}

\* What the stored record may hold for a current voltage v: the same value,
\* no key, another voltage, or the same number as an int.
PreviousVoltages(v) == {v, Absent, PyFloat(125), PyInt(12)}

PureCurrent ==
    {[status |-> st, conn |-> c, maint |-> m, warn |-> w, volt |-> v] :
       st \in StatusCodes, c \in Connectivity, m \in BOOLEAN, w \in BOOLEAN,
       v \in CurrentVoltages}

PureInputs ==
    UNION {{[current |-> cur, previous |-> prev] :
              prev \in {Absent} \cup
                       {[status |-> st, conn |-> c, maint |-> m, warn |-> w,
                         volt |-> v] :
                          st \in StatusCodes, c \in {cur.conn, <<TRUE, FALSE>>},
                          m \in BOOLEAN, w \in BOOLEAN,
                          v \in PreviousVoltages(cur.volt)}} :
           cur \in PureCurrent}

AsState(p) == StateOf(p.status, p.conn[1], p.conn[2], p.maint, p.warn, p.volt)

\* The value get_previous_state returns for a stored state.
PreviousOf(p, asText) ==
    IF p = Absent THEN NoneResult
    ELSE [device_id |-> 1,
          state |-> IF asText THEN JsonDumps(AsState(p)) ELSE DictObj(AsState(p)),
          last_updated |-> "utcnow"]

PolicyConfigs ==
    {Config(on, "arn:sns", "from@example.com", <<"to@example.com">>) :
       on \in SUBSET Switches}

SwitchName(change_type) ==
    CASE change_type = "status_change" -> "notify_on_status_change"
      [] change_type = "connectivity" -> "notify_on_connectivity_change"
      [] change_type = "maintenance" -> "notify_on_maintenance_alert"
      [] change_type = "warning" -> "notify_on_warning"
      [] change_type = "low_battery" -> "notify_on_low_battery"

\* For one category: its switch on or off, the other switches all on or off.
CategoryConfigs(change_type) ==
    {Config(on, "arn:sns", "from@example.com", <<"to@example.com">>) :
       on \in {Switches, {}, {SwitchName(change_type)},
               Switches \ {SwitchName(change_type)}}}

SwitchOf(cfg, change_type) ==
    CASE change_type = "status_change" -> cfg.notify_on_status_change
      [] change_type = "connectivity" -> cfg.notify_on_connectivity_change
      [] change_type = "maintenance" -> cfg.notify_on_maintenance_alert
      [] change_type = "warning" -> cfg.notify_on_warning
      [] change_type = "low_battery" -> cfg.notify_on_low_battery

SwitchesOn(cfg) == {c \in {Categories[i] : i \in 1..Len(Categories)} : SwitchOf(cfg, c)}

InitPure ==
    /\ config = AllOn
    /\ store = [d \in DeviceIds |-> NoItem]
    /\ pc = "idle"
    /\ pending = <<>>
    /\ results = NewResults
    /\ raised = FALSE
    /\ iterated = {}
    /\ last = NoIteration
    /\ announced = {}
    /\ reannounced = {}
    /\ dispatched = 0
    /\ pin \in PureInputs
    /\ pout = NoCall

CycleVars == <<config, store, pc, pending, results, raised, iterated, last,
               announced, reannounced, dispatched>>

CallCompareStates ==
    /\ pout = NoCall
    /\ \E asText \in BOOLEAN :
         pout' = [op |-> "compare_states", as_text |-> asText,
                  result |-> CompareStates(PreviousOf(pin.previous, asText),
                                           AsState(pin.current))]
    /\ UNCHANGED <<CycleVars, pin>>

CallShouldNotify ==
    /\ pout = NoCall
    /\ \E i \in 1..Len(Categories) :
       \E cfg \in CategoryConfigs(Categories[i]) :
         \E cmp \in {CompareStates(PreviousOf(pin.previous, FALSE),
                                   AsState(pin.current))} :
            pout' = [op |-> "should_notify", change_type |-> Categories[i],
                     switch_on |-> SwitchOf(cfg, Categories[i]),
                     threshold |-> cfg.low_battery_threshold,
                     changes |-> cmp.changes,
                     result |-> ShouldNotify(cfg, Categories[i], cmp.changes,
                                             AsState(pin.current))]
    /\ UNCHANGED <<CycleVars, pin>>

CallProcessChanges ==
    /\ pout = NoCall
    /\ \E cfg \in PolicyConfigs :
         \E cmp \in {CompareStates(PreviousOf(pin.previous, FALSE),
                                   AsState(pin.current))} :
            pout' = [op |-> "process_changes", switches |-> SwitchesOn(cfg),
                     is_new_device |-> cmp.is_new_device,
                     changes |-> cmp.changes,
                     fired |-> {c \in SwitchesOn(cfg) :
                                  ShouldNotify(cfg, c, cmp.changes,
                                               AsState(pin.current))},
                     messages |-> ProcessChanges(cfg, 1, AsState(pin.current),
                                                 cmp.changes, cmp.is_new_device,
                                                 "ok", "ok").messages]
    /\ UNCHANGED <<CycleVars, pin>>

NextPure == CallCompareStates \/ CallShouldNotify \/ CallProcessChanges

SpecPure == InitPure /\ [][NextPure]_vars

-----------------------------------------------------------------------------
(* Direct calls of extract_state, of save_state followed by                *)
(* get_previous_state, and of send_notification, on the snapshots the      *)
(* remote API can return.  from_dict builds a snapshot from decoded JSON,  *)
(* so its fields hold None, bool, int, float or str values.                *)

\* An argument that is no Item.
NotAnItem == [other |-> TRUE]

\* The value of a battery property: a reading, zero, a whole number, text,
\* or null.
PropertyValues == {PyFloat(132), PyFloat(119), PyFloat(0), PyInt(12),
                   PyStr("11.5"), PyNone}

\* Property lists: none, only other types, one type-70 entry, and a type-70
\* entry between another type and a second type-70 entry.
PropertyLists ==
    {<<>>, <<Property(69, PyFloat(5))>>}
    \cup {<<Property(BATTERY_PROPERTY_TYPE, v)>> : v \in PropertyValues}
    \cup {<<Property(69, PyFloat(5)), Property(BATTERY_PROPERTY_TYPE, v),
            Property(BATTERY_PROPERTY_TYPE, PyFloat(125))>> :
             v \in PropertyValues}

LastSeenValues == {PyStr("t1"), PyStr("t2"), PyNone}

Snapshots ==
    {NotAnItem} \cup
    {Item(Apparatus(PyInt(ty), PyStr("Gen"), PyStr("SN")),
          Detail(PyBool(c), PyFalse, PyBool(m), PyFalse, label, PyNone,
                 PyInt(st), seen, props)) :
       ty \in {DEVICE_TYPE_GENERATOR, DEVICE_TYPE_PROPANE_MONITOR},
       c \in BOOLEAN, m \in BOOLEAN, label \in {PyNone, PyStr("Ready")},
       st \in StatusCodes, seen \in LastSeenValues, props \in PropertyLists}

\* The record the table holds for the device before the call: none, or the
\* state of an earlier cycle.
EarlierItem ==
    Item(Apparatus(PyInt(DEVICE_TYPE_GENERATOR), PyStr("Gen"), PyStr("SN")),
         Detail(PyFalse, PyTrue, PyFalse, PyTrue, PyNone, PyNone, PyInt(4),
                PyStr("t0"), <<Property(BATTERY_PROPERTY_TYPE, PyFloat(125))>>))

EarlierTables ==
    {[d \in DeviceIds |-> NoItem],
     [d \in DeviceIds |-> SavedItem(d, ExtractState(EarlierItem))]}

\* Every way of configuring the two channels.
DispatchConfigs ==
    {Config(Switches, sns, sesFrom, sesTo) :
       sns \in {"", "arn:sns"}, sesFrom \in {"", "from@example.com"},
       sesTo \in {<<>>, <<"to@example.com">>}}

InitIO ==
    /\ config = AllOn
    /\ store = [d \in DeviceIds |-> NoItem]
    /\ pc = "idle"
    /\ pending = <<>>
    /\ results = NewResults
    /\ raised = FALSE
    /\ iterated = {}
    /\ last = NoIteration
    /\ announced = {}
    /\ reannounced = {}
    /\ dispatched = 0
    /\ pin \in Snapshots
    /\ pout = NoCall

CallExtractState ==
    /\ pout = NoCall
    /\ pout' = [op |-> "extract_state", result |-> ExtractState(pin)]
    /\ UNCHANGED <<CycleVars, pin>>

\* save_state(device_id, state), then get_previous_state(device_id), then
\* compare_states of the loaded record with the state that was saved.
CallSaveThenLoad ==
    /\ pout = NoCall
    /\ \E table \in EarlierTables, putItem \in CallOutcomes, getItem \in CallOutcomes :
       \E saved \in {SaveState(table, 1, ExtractState(pin), putItem)} :
       \E loaded \in {GetPreviousState(saved.table, 1, getItem)} :
         pout' = [op |-> "save_then_load",
                  had_record |-> table[1] # NoItem,
                  state |-> ExtractState(pin),
                  save_exc |-> saved.exc, save_ok |-> saved.ok,
                  load_exc |-> IF saved.exc = "none" THEN loaded.exc ELSE "none",
                  loaded |-> IF saved.exc = "none" /\ loaded.exc = "none"
                             THEN loaded.value ELSE NoState,
                  comparison |-> IF saved.exc = "none" /\ loaded.exc = "none"
                                 THEN CompareStates(loaded.value, ExtractState(pin))
                                 ELSE NoState]
    /\ UNCHANGED <<CycleVars, pin>>

CallSendNotification ==
    /\ pout = NoCall
    /\ \E cfg \in DispatchConfigs, publish \in CallOutcomes, sendEmail \in CallOutcomes :
         pout' = [op |-> "send_notification",
                  sns_topic_arn |-> cfg.sns_topic_arn,
                  ses_from_email |-> cfg.ses_from_email,
                  ses_to_emails |-> cfg.ses_to_emails,
                  publish |-> publish, send_email |-> sendEmail,
                  result |-> SendNotification(cfg, publish, sendEmail)]
    /\ UNCHANGED <<CycleVars, pin>>

NextIO == CallExtractState \/ CallSaveThenLoad \/ CallSendNotification

SpecIO == InitIO /\ [][NextIO]_vars

-----------------------------------------------------------------------------
(* Properties of the monitoring cycle, checked under Spec.                 *)

\* The latest iteration got past compare_states.
Compared == last.stage \in {"notify", "persist", "done"}

ErrorCount(device_id) ==
    Cardinality({i \in 1..Len(results.errors) :
                   results.errors[i] = [kind |-> "device", device_id |-> device_id]})

\* The reading holds a number below the configured threshold.
BelowThreshold(state) ==
    /\ "battery_voltage" \in DOMAIN state
    /\ state["battery_voltage"].t \in {"int", "float"}
    /\ state["battery_voltage"].x10 < config.low_battery_threshold

\* C1: in every cycle, for every device whose state was extracted and
\* compared, save_state is called with that cycle's current state, whether
\* or not a notification was triggered or sent, and a write that succeeds
\* leaves the latest observation as the device's persisted record.
C1_StateSavedEveryCycle ==
    Compared =>
        /\ last.save_called
        /\ last.save_arg = last.current_state
        /\ last.save_ok =>
             store[last.device_id] = SavedItem(last.device_id, last.current_state)

\* C2: when the delivery of a device's notification fails (a channel fails,
\* or an exception is raised while the message is sent), the state of that
\* device is still persisted in that cycle, and every later device of the
\* cycle is still iterated.
C2_DeliveryFailureStillPersists ==
    /\ (Compared /\ last.messages # <<>> /\ ~last.delivered) => last.save_called
    /\ (pc = "done" /\ last.stage # "fetch") =>
          iterated = 1..results.devices_checked

\* C3: an exception raised while one device is extracted, loaded, compared,
\* notified or persisted is caught and adds exactly one entry for that device
\* to the error list; every remaining device is still iterated;
\* check_generators never raises; a failing fetch is recorded in the error
\* list of the result.
C3_ErrorsCollectedNotRaised ==
    /\ raised = FALSE
    /\ last.stage = "fetch" =>
          /\ pc = "done"
          /\ results.errors = <<[kind |-> "fetch", device_id |-> 0]>>
    /\ last.stage \notin {"none", "fetch"} =>
          ErrorCount(last.device_id) = IF last.exc # "none" THEN 1 ELSE 0
    /\ \A d \in DeviceIds :
          ErrorCount(d) <= (IF d \in iterated THEN 1 ELSE 0)
    /\ pc = "running" =>
          iterated \cup {pending[i] : i \in 1..Len(pending)}
             = 1..results.devices_checked
    /\ (pc = "done" /\ last.stage # "fetch") =>
          iterated = 1..results.devices_checked

\* C3 witness: the first device's iteration raised, one entry was recorded
\* for it, and the second device was then processed to the end.
C3_Witness ==
    /\ pc = "done"
    /\ results.errors = <<[kind |-> "device", device_id |-> 1]>>
    /\ last.device_id = 2
    /\ last.stage = "done"
    /\ last.save_ok

\* C4: for a known generator with the low-battery switch on, a notification
\* is triggered in every cycle in which the current battery voltage is below
\* the threshold, also when the change-set is empty.
C4_LowBatteryFiresEveryCycle ==
    (/\ Compared
     /\ ~last.comparison.is_new_device
     /\ config.notify_on_low_battery
     /\ BelowThreshold(last.current_state))
    => Len(last.messages) = 1

\* C6: a new device is always notified; a known device is notified if and
\* only if at least one of the five category rules fires; at most one
\* message per device per cycle is built and dispatched.
C6_OverallDecision ==
    Compared =>
        /\ Len(last.messages) <= 1
        /\ last.comparison.is_new_device => Len(last.messages) = 1
        /\ ~last.comparison.is_new_device =>
             (Len(last.messages) = 1 <=>
                \E i \in 1..Len(Categories) :
                   ShouldNotify(config, Categories[i], last.comparison.changes,
                                last.current_state))

-----------------------------------------------------------------------------
(* Properties of successive cycles, checked under SpecCycles.              *)

\* The latest step was a loop iteration.
Iterating == last.stage \notin {"none", "fetch"}

\* C14: a device is treated as new (is_new_device true, the new-device
\* message built and sent) only if the table holds no record for its device
\* id when the cycle loads it; a device whose record exists is never
\* reported as new, also when reading the table fails.
C14_NewOnlyWithoutRecord ==
    Iterating =>
        /\ (Compared /\ last.comparison.is_new_device) => ~last.had_record
        /\ (last.messages # <<>> /\ last.messages[1].kind = "new_device")
              => ~last.had_record

\* C15: over any sequence of cycles, each device id receives the new-device
\* notification in at most one cycle.
C15_AnnouncedAtMostOnce ==
    reannounced = {}

\* C16: notifications_sent equals the number of devices of the cycle for
\* which a message was built and handed to send_notification; a device whose
\* change-set triggers no rule does not increase it.
C16_CounterCountsDispatchedMessages ==
    (pc \in {"running", "done"} /\ last.stage # "fetch") =>
        /\ results.notifications_sent = dispatched
        /\ (Iterating /\ last.messages = <<>>) => ~last.counted

-----------------------------------------------------------------------------
(* Properties of the pure functions, checked under SpecPure.               *)

\* The arguments of the call, as states.
PureCurrentState == AsState(pin.current)
PurePreviousState == AsState(pin.previous)

\* The value holds a number: an int, a float, or text that reads as one.
HoldsNumber(v) ==
    \/ v.t \in {"int", "float"}
    \/ v.t = "str" /\ v.s \in DOMAIN NumericText

NumberOf(v) == IF v.t = "str" THEN NumericText[v.s] ELSE v.x10

\* Value-level equality: None equals None, numbers compare by value, text
\* compares with text.
SameValue(a, b) ==
    \/ a.t = "none" /\ b.t = "none"
    \/ a.t \in {"bool", "int", "float"} /\ b.t \in {"bool", "int", "float"}
         /\ a.x10 = b.x10
    \/ a.t = "str" /\ b.t = "str" /\ a.s = b.s

ValueIn(state, k) == IF k \in DOMAIN state THEN state[k] ELSE PyNone

\* C5: with the low-battery switch on, should_notify("low_battery") returns
\* true if and only if the current state holds a numeric battery_voltage
\* strictly below the threshold (0 included); not at the threshold, not
\* when the voltage is absent or null.
C5_LowBatteryIffBelowThreshold ==
    (pout.op = "should_notify" /\ pout.change_type = "low_battery"
       /\ pout.switch_on)
    => (pout.result <=>
          LET v == ValueIn(PureCurrentState, "battery_voltage")
          IN HoldsNumber(v) /\ NumberOf(v) < pout.threshold)

\* C7: a category whose switch is off never fires, whatever the change-set
\* and the current state; with all five switches off process_changes sends
\* nothing for a known device and still sends the message of a new device.
C7_SwitchOffNeverFires ==
    /\ (pout.op = "should_notify" /\ ~pout.switch_on) => ~pout.result
    /\ (pout.op = "process_changes" /\ pout.switches = {}) =>
          pout.messages = IF pout.is_new_device
                          THEN <<BuildMessage(1, PureCurrentState,
                                              pout.changes, TRUE)>>
                          ELSE <<>>

\* C7 witness: all switches off, a known device whose status, connectivity
\* and alerts changed and whose battery is low, and nothing is sent.
C7_Witness ==
    /\ pout.op = "process_changes"
    /\ pout.switches = {}
    /\ ~pout.is_new_device
    /\ {"apparatus_status", "is_connected", "has_maintenance_alert",
        "show_warning"} \subseteq DOMAIN pout.changes
    /\ pin.current.maint /\ pin.current.warn
    /\ pin.current.volt = PyFloat(119)
    /\ pout.messages = <<>>

\* C8: with its switch on, the maintenance rule (the warning rule) fires if
\* and only if has_maintenance_alert (show_warning) is in the change-set and
\* its current value is true: false to true notifies, true to false and an
\* unchanged true do not.
C8_AlertRulesFireOnRaise ==
    /\ (pout.op = "should_notify" /\ pout.change_type = "maintenance"
          /\ pout.switch_on) =>
          /\ pout.result <=> ("has_maintenance_alert" \in DOMAIN pout.changes
                                /\ pin.current.maint)
          /\ pin.previous # Absent =>
               (pout.result <=> (~pin.previous.maint /\ pin.current.maint))
    /\ (pout.op = "should_notify" /\ pout.change_type = "warning"
          /\ pout.switch_on) =>
          /\ pout.result <=> ("show_warning" \in DOMAIN pout.changes
                                /\ pin.current.warn)
          /\ pin.previous # Absent =>
               (pout.result <=> (~pin.previous.warn /\ pin.current.warn))

\* C8 witness: the maintenance alert went from false to true and the rule
\* fired.
C8_Witness ==
    /\ pout.op = "should_notify"
    /\ pout.change_type = "maintenance"
    /\ pout.switch_on
    /\ pin.previous # Absent
    /\ ~pin.previous.maint /\ pin.current.maint
    /\ pout.result

\* C9: compare_states with no previous record returns is_new_device = true
\* and an empty changes mapping whatever the current state; in every result
\* is_new_device = true implies empty changes.
C9_NewDeviceHasNoChanges ==
    pout.op = "compare_states" =>
        /\ pin.previous = Absent =>
             (pout.result.is_new_device /\ DOMAIN pout.result.changes = {})
        /\ pout.result.is_new_device => DOMAIN pout.result.changes = {}

\* C9 witness: compare_states was called without a previous record on a
\* generator reading.
C9_Witness ==
    /\ pout.op = "compare_states"
    /\ pin.previous = Absent
    /\ pin.current.volt = PyFloat(119)
    /\ pout.result.is_new_device

\* C10: compare_states with a previous record returns is_new_device = false
\* and changes whose keys are exactly the keys of current whose value differs
\* from previous (a key missing in previous counts as null), each entry
\* holding the previous and current input values; keys only in previous
\* never appear; equal states give an empty mapping.
C10_ChangesAreTheDifferingKeys ==
    (pout.op = "compare_states" /\ pin.previous # Absent) =>
        LET changes == pout.result.changes
        IN /\ ~pout.result.is_new_device
           /\ DOMAIN changes \subseteq DOMAIN PureCurrentState
           /\ \A k \in DOMAIN PureCurrentState :
                k \in DOMAIN changes <=>
                   ~SameValue(ValueIn(PurePreviousState, k), PureCurrentState[k])
           /\ \A k \in DOMAIN changes :
                /\ changes[k].previous = ValueIn(PurePreviousState, k)
                /\ changes[k].current = PureCurrentState[k]
           /\ PurePreviousState = PureCurrentState => DOMAIN changes = {}

\* C10 witness: the previous record holds a battery_voltage the current
\* state lacks, the status differs, and only the status is reported.
C10_Witness ==
    /\ pout.op = "compare_states"
    /\ pin.previous # Absent
    /\ "battery_voltage" \in DOMAIN PurePreviousState
    /\ "battery_voltage" \notin DOMAIN PureCurrentState
    /\ pin.previous.status = 1 /\ pin.current.status = 4
    /\ pin.previous.conn = pin.current.conn
    /\ pin.previous.maint = pin.current.maint
    /\ pin.previous.warn = pin.current.warn
    /\ DOMAIN pout.result.changes = {"apparatus_status", "device_type"}

-----------------------------------------------------------------------------
(* Properties of the direct calls, checked under SpecIO.                   *)

\* C11: after save_state(device_id, state) succeeded,
\* get_previous_state(device_id) returns a state with the same keys whose
\* values equal the saved ones field by field (numbers stay numbers and
\* compare by value), battery_voltage and last_seen included; comparing the
\* loaded record with the same current state gives an empty change-set.
C11_SaveLoadRoundTrip ==
    (pout.op = "save_then_load" /\ pout.save_ok /\ pout.load_exc = "none"
       /\ pout.loaded # NoneResult)
    => LET loaded == pout.loaded.state.dict
       IN /\ pout.loaded.device_id = 1
          /\ DOMAIN loaded = DOMAIN pout.state
          /\ \A k \in DOMAIN pout.state :
                /\ SameValue(loaded[k], pout.state[k])
                /\ loaded[k].t = pout.state[k].t
          /\ ~pout.comparison.is_new_device
          /\ DOMAIN pout.comparison.changes = {}

\* C11 witness: a generator state with a fractional battery voltage and a
\* last_seen text replaced the record of an earlier cycle and was read back
\* without a change.
C11_Witness ==
    /\ pout.op = "save_then_load"
    /\ pout.had_record
    /\ pout.save_ok
    /\ pout.loaded # NoState /\ pout.loaded # NoneResult
    /\ "battery_voltage" \in DOMAIN pout.state
    /\ pout.state["battery_voltage"] = PyFloat(132)
    /\ pout.state["last_seen"] = PyStr("t1")
    /\ pout.loaded.state.dict["battery_voltage"] = PyFloat(132)
    /\ DOMAIN pout.comparison.changes = {}

\* The positions of the type-70 entries of a property list.
BatteryEntries(props) ==
    {i \in 1..Len(props) : props[i].type = BATTERY_PROPERTY_TYPE}

\* C12: in every record extract_state produces, the battery_voltage key is
\* present if and only if the device is a generator and its property list
\* holds an entry of type 70, and then its value is that of the first such
\* entry; a generator without one and every other device give a record
\* without the key.
C12_BatteryKeyIffType70 ==
    (pout.op = "extract_state" /\ pin # NotAnItem)
    => LET props == pin.apparatusDetail.properties
           generator == pin.apparatus.type = PyInt(DEVICE_TYPE_GENERATOR)
       IN /\ "battery_voltage" \in DOMAIN pout.result
                <=> (generator /\ BatteryEntries(props) # {})
          /\ (generator /\ BatteryEntries(props) # {}) =>
                \E i \in BatteryEntries(props) :
                   /\ \A j \in BatteryEntries(props) : i <= j
                   /\ "battery_voltage" \in DOMAIN pout.result
                   /\ pout.result["battery_voltage"] = props[i].value

\* The channels the configuration holds credentials for.
ConfiguredChannels ==
    (IF pout.sns_topic_arn # "" THEN {"sns"} ELSE {})
    \cup (IF pout.ses_from_email # "" /\ pout.ses_to_emails # <<>>
          THEN {"ses"} ELSE {})

\* C13: send_notification attempts every configured channel whatever the
\* outcome of the other, attempts no channel that lacks credentials, raises
\* nothing to its caller, and returns true if and only if at least one
\* configured channel delivered.
C13_EveryConfiguredChannelAttempted ==
    pout.op = "send_notification"
    => /\ pout.result.attempted = ConfiguredChannels
       /\ pout.result.exc = "none"
       /\ pout.result.success <=>
             \/ "sns" \in ConfiguredChannels /\ pout.publish = "ok"
             \/ "ses" \in ConfiguredChannels /\ pout.send_email = "ok"

====
